---- MODULE Spec2Model ----
(***************************************************************************)
(* Model of the cellular-automaton engine of grid-machine (src/src/ca.rs): *)
(* the Simulation struct with its two buffers, the step loop, step_until,  *)
(* the coordinate mapping and the von Neumann neighbourhood.               *)
(*                                                                         *)
(* Three specifications live here:                                         *)
(*   Spec      the Simulation object driven by a caller (step, step_until);*)
(*   SpecFn    the free functions applied to inputs drawn from bounded sets;*)
(*   SpecIter  the private Neighborhood iterator driven by a caller.       *)
(***************************************************************************)
EXTENDS Integers, Sequences, FiniteSets

(***************************************************************************)
(* Bounds of the model.                                                    *)
(***************************************************************************)
\* largest width*height a constructed grid has, and longest `cells` vector
MaxArea == 4
\* completed step() calls in one run
MaxSteps == 3
\* largest width, height, x and y handed to the free functions
MaxGrid == 4
\* largest index handed to idx_to_coord
MaxIdx == 12
\* largest width and height of the grids whose positions are taken two at a time
MaxPairGrid == 3
\* calls of next() made on one Neighborhood iterator
MaxNext == 6

VARIABLES
    width,         \* Simulation.width
    height,        \* Simulation.height
    transition,    \* Simulation.transition: which closure the caller supplied
    captured,      \* the mutable state the transition closure captured (FnMut)
    neighborhood,  \* Simulation.neighborhood: which closure the caller supplied
    state,         \* Simulation.state
    buffer,        \* Simulation.buffer
    pc,            \* where the program is: "idle", "until", "scan", "panicked", "fn"
    x,             \* step: inner loop variable
    y,             \* step: outer loop variable
    caller,        \* who called the running step(): "main" or "step_until"
    iter,          \* step_until: iterations of `for _ in 0..step_count` started
    step_count,    \* step_until: its argument
    init_cells,    \* history: the `cells` argument of from_cells (<<>> for new)
    ctor,          \* history: "new" or "from_cells"
    pre_state,     \* history: cells() when the running / latest step() began
    args,          \* history: what the latest transition invocation was handed
    oob,           \* history: the neighbourhood closure returned an out-of-grid coordinate in this step
    steps_done,    \* history: completed step() calls
    snap,          \* history: the simulation when step_until was called
    last_ret,      \* history: the call that returned last
    calls,         \* history: invocations of the two closures in the running / latest step()
    nb_iter,       \* SpecIter: the Neighborhood iterator, with what next() has returned
    fn_call        \* SpecFn: the latest call of a free function, with its result

vars == <<width, height, transition, captured, neighborhood, state, buffer, pc, x, y,
          caller, iter, step_count, init_cells, ctor, pre_state, args, oob,
          steps_done, snap, last_ret, calls, nb_iter, fn_call>>

sim_fields == <<width, height, transition, neighborhood>>


(***************************************************************************)
(* Coordinate mapping.                                                     *)
(***************************************************************************)
\* `as usize` of an i32: a non-negative value is kept, a negative value v becomes
\* 2^64 + v.  TLC's integers are 32 bits wide, so the modulus is written 2^30:
\* like 2^64 it exceeds every i32 magnitude and every Vec length of the model,
\* which is all the engine's bounds checks depend on.
as_usize(v) == IF v >= 0 THEN v ELSE 2^30 + v

\* a slip: x and y multiplied the wrong way round
coord_to_idx_swapped(w, cx, cy) == as_usize(cx * w + cy)

coord_to_idx(w, cx, cy) == as_usize(cy * w + cx)

\* a slip: quotient and remainder exchanged
idx_to_coord_swapped(w, idx) == <<idx \div w, idx % w>>

idx_to_coord(w, idx) == <<idx % w, idx \div w>>

(***************************************************************************)
(* The built-in neighbourhood.                                             *)
(***************************************************************************)
\* a slip: an offset typed twice, another left out
VON_NEUMAN_NEIGHBORHOOD_repeated == << <<-1, 0>>, <<0, -1>>, <<1, 0>>, <<1, 0>> >>

\* a slip: the last offset left out of the table
VON_NEUMAN_NEIGHBORHOOD_short == << <<-1, 0>>, <<0, -1>>, <<1, 0>> >>

VON_NEUMAN_NEIGHBORHOOD == << <<-1, 0>>, <<0, -1>>, <<1, 0>>, <<0, 1>> >>

in_grid(c, w, h) == c[1] >= 0 /\ c[1] < w /\ c[2] >= 0 /\ c[2] < h

\* a slip: the upper bounds tested with <= instead of <
von_neuman_inclusive(cx, cy, w, h) ==
    LET mapped == [k \in 1..Len(VON_NEUMAN_NEIGHBORHOOD) |->
                      <<cx + VON_NEUMAN_NEIGHBORHOOD[k][1], cy + VON_NEUMAN_NEIGHBORHOOD[k][2]>>]
        keep(c) == c[1] >= 0 /\ c[1] <= w /\ c[2] >= 0 /\ c[2] <= h
    IN SelectSeq(mapped, keep)

\* a slip: the lower bound of x tested with > instead of >=
von_neuman_strict_lower(cx, cy, w, h) ==
    LET mapped == [k \in 1..Len(VON_NEUMAN_NEIGHBORHOOD) |->
                      <<cx + VON_NEUMAN_NEIGHBORHOOD[k][1], cy + VON_NEUMAN_NEIGHBORHOOD[k][2]>>]
        keep(c) == c[1] > 0 /\ c[1] < w /\ c[2] >= 0 /\ c[2] < h
    IN SelectSeq(mapped, keep)

von_neuman(cx, cy, w, h) ==
    LET mapped == [k \in 1..Len(VON_NEUMAN_NEIGHBORHOOD) |->
                      <<cx + VON_NEUMAN_NEIGHBORHOOD[k][1], cy + VON_NEUMAN_NEIGHBORHOOD[k][2]>>]
        keep(c) == c[1] >= 0 /\ c[1] < w /\ c[2] >= 0 /\ c[2] < h
    IN SelectSeq(mapped, keep)

(***************************************************************************)
(* The closures a caller hands to the constructors.  The engine is generic *)
(* in them; the model offers a few of each kind.                           *)
(***************************************************************************)
TransitionRules == {"identity", "count_calls", "copy_first", "increment", "check_adjacent"}

\* the rules that leave their cell argument as it is
NoOpRules == {"identity", "count_calls", "check_adjacent"}

NeighborhoodRules == {"von_neuman", "east_unchecked", "west_unchecked", "east_by_index"}

\* LocatableCell {x, y} of examples/indexing: the coordinates a cell value holds.
\* The k-th of the located cells holds idx_to_coord(width, k - 1); the default
\* cell holds (0, 0).
cell_location(w, v) == IF v = 0 THEN <<0, 0>> ELSE idx_to_coord(w, v - 1)

\* the adjacency test of trans_fn in examples/indexing
adjacent(c, n) ==
    \/ (c[1] = n[1] /\ (c[2] = n[2] - 1 \/ c[2] = n[2] + 1))
    \/ (c[2] = n[2] /\ (c[1] = n[1] - 1 \/ c[1] = n[1] + 1))

\* trans_fn of examples/indexing panics on a neighbour that is not adjacent to
\* the cell and on a neighbour location met twice
check_adjacent_panics(w, cell, neighbors) ==
    \E k \in 1..Len(neighbors) :
        \/ ~adjacent(cell_location(w, cell), cell_location(w, neighbors[k]))
        \/ \E j \in 1..(k - 1) : cell_location(w, neighbors[j]) = cell_location(w, neighbors[k])

\* (self.transition)(&mut cell, &neighbors): the cell as the closure leaves it,
\* and the closure's captured state afterwards; ok is FALSE when the closure panics
apply_transition(rule, cell, neighbors, cap) ==
    CASE rule = "identity"    -> [ok |-> TRUE, cell |-> cell, captured |-> cap]
      [] rule = "count_calls" -> [ok |-> TRUE, cell |-> cell, captured |-> cap + 1]
      [] rule = "copy_first"  -> [ok |-> TRUE,
                                  cell |-> IF Len(neighbors) > 0 THEN neighbors[1] ELSE cell,
                                  captured |-> cap]
      [] rule = "increment"   -> [ok |-> TRUE, cell |-> cell + 1, captured |-> cap]
      [] rule = "check_adjacent" ->
            [ok |-> ~check_adjacent_panics(width, cell, neighbors), cell |-> cell, captured |-> cap]

\* (self.neighborhood)(x, y, width, height)
apply_neighborhood(rule, cx, cy, w, h) ==
    CASE rule = "von_neuman"     -> von_neuman(cx, cy, w, h)
      [] rule = "east_unchecked" -> << <<cx + 1, cy>> >>
      [] rule = "west_unchecked" -> << <<cx - 1, cy>> >>
      [] rule = "east_by_index"  ->
            LET keep(c) == c[2] * w + c[1] >= 0 /\ c[2] * w + c[1] < w * h
            IN SelectSeq(<< <<cx + 1, cy>> >>, keep)

(***************************************************************************)
(* Construction.                                                           *)
(***************************************************************************)
NoArgs == [called |-> FALSE, pos |-> <<0, 0>>, cell |-> 0, coords |-> <<>>, neighbors |-> <<>>]

NoSnap == [state |-> <<>>, buffer |-> <<>>, captured |-> 0, steps_done |-> 0]

NoCall == [op |-> "none"]

NoCalls == [neighborhood |-> 0, transition |-> 0]

NoIter == [made |-> FALSE]

\* vec![C::default(); capacity]: the default cell is 0
default_cells(capacity) == [k \in 1..capacity |-> 0]

\* The `cells` a caller hands to from_cells: like the cells of examples/indexing,
\* each holds what identifies its own place (here its index + 1, never the
\* default), so that a cell read from or written to the wrong place shows.
located_cells(len) == [k \in 1..len |-> k]

Constructed(w, h, t, n) ==
    /\ width = w
    /\ height = h
    /\ transition = t
    /\ neighborhood = n
    /\ captured = 0
    /\ x = 0
    /\ y = 0
    /\ caller = "main"
    /\ iter = 0
    /\ step_count = 0
    /\ pre_state = <<>>
    /\ args = NoArgs
    /\ oob = FALSE
    /\ steps_done = 0
    /\ snap = NoSnap
    /\ last_ret = "none"
    /\ calls = NoCalls
    /\ nb_iter = NoIter
    /\ fn_call = NoCall

\* a slip: the buffers sized by width alone
new_capacity_width(w, h) == as_usize(w)

new_capacity(w, h) == as_usize(w * h)

new(w, h, t, n) ==
    /\ Constructed(w, h, t, n)
    /\ pc = "idle"
    /\ state = default_cells(new_capacity(w, h))
    /\ buffer = default_cells(new_capacity(w, h))
    /\ init_cells = <<>>
    /\ ctor = "new"

\* state: cells.to_vec()
from_cells_state(cells) == cells

\* a slip: the buffer allocated with defaults, as new does, only the state seeded
from_cells_buffer_default(cells) == default_cells(Len(cells))

\* buffer: cells
from_cells_buffer(cells) == cells

from_cells(w, h, t, n, cells) ==
    /\ Constructed(w, h, t, n)
    /\ pc = "idle"
    /\ state = from_cells_state(cells)
    /\ buffer = from_cells_buffer(cells)
    /\ init_cells = cells
    /\ ctor = "from_cells"

Dims == {d \in (0..MaxArea) \X (0..MaxArea) : d[1] * d[2] <= MaxArea}

Init ==
    \E d \in Dims, t \in TransitionRules, n \in NeighborhoodRules :
        \/ new(d[1], d[2], t, n)
        \/ \E len \in 0..MaxArea : from_cells(d[1], d[2], t, n, located_cells(len))

(***************************************************************************)
(* step().                                                                 *)
(***************************************************************************)
\* a slip: the neighbours read from the buffer being written
state_ref_buffer == buffer

\* let state_ref = &self.state;
state_ref == state

\* a slip: the rule's result always written to the first slot
write_slot_first(buf, bi, cell) == [buf EXCEPT ![1] = cell]

\* &mut buf_ref[bi] as the transition rule leaves it: the buffer with slot bi rewritten
write_slot(buf, bi, cell) == [buf EXCEPT ![bi + 1] = cell]

\* The body of the two loops for position (cx, cy), on current state st and
\* write buffer buf: gather the neighbours from st, then run the transition on
\* the buffer's slot.  Indexing a Vec past its length panics, and so may the
\* transition closure; `ok` is FALSE then.  `invoked` tells whether the
\* transition closure was called.
scan_cell(st, buf, cap, cx, cy) ==
    LET coords == apply_neighborhood(neighborhood, cx, cy, width, height)
        idxs == [k \in 1..Len(coords) |-> coord_to_idx(width, coords[k][1], coords[k][2])]
        bi == coord_to_idx(width, cx, cy)
    IN IF (\E k \in 1..Len(idxs) : idxs[k] >= Len(st)) \/ bi >= Len(buf)
       THEN [ok |-> FALSE, invoked |-> FALSE, buffer |-> buf, captured |-> cap,
             args |-> NoArgs, coords |-> coords]
       ELSE LET neighbors == [k \in 1..Len(idxs) |-> st[idxs[k] + 1]]
                out == apply_transition(transition, buf[bi + 1], neighbors, cap)
            IN [ok |-> out.ok,
                invoked |-> TRUE,
                buffer |-> IF out.ok THEN write_slot(buf, bi, out.cell) ELSE buf,
                captured |-> IF out.ok THEN out.captured ELSE cap,
                args |-> [called |-> TRUE, pos |-> <<cx, cy>>, cell |-> buf[bi + 1],
                          coords |-> coords, neighbors |-> neighbors],
                coords |-> coords]

BeginStep(who) ==
    /\ pc' = "scan"
    /\ x' = 0
    /\ y' = 0
    /\ caller' = who
    /\ pre_state' = state
    /\ args' = NoArgs
    /\ oob' = FALSE
    /\ calls' = NoCalls

\* the caller calls step()
CallStep ==
    /\ pc = "idle"
    /\ steps_done < MaxSteps
    /\ BeginStep("main")
    /\ last_ret' = "none"
    /\ UNCHANGED <<sim_fields, captured, state, buffer, iter, step_count, init_cells, ctor,
                   steps_done, snap, nb_iter, fn_call>>

\* a slip: x and y handed to the loop body the wrong way round
loop_position_transposed(outer, inner) == <<outer, inner>>

\* for y in 0..height { for x in 0..width { .. } }: the position (x, y) the
\* body works on, from the outer and the inner loop variable
loop_position(outer, inner) == <<inner, outer>>

\* one pass of the inner loop's body
ScanCell ==
    /\ pc = "scan"
    /\ y < height
    /\ x < width
    /\ LET p == loop_position(y, x)
           r == scan_cell(state_ref, buffer, captured, p[1], p[2])
       IN /\ oob' = (oob \/ \E k \in 1..Len(r.coords) : ~in_grid(r.coords[k], width, height))
          /\ calls' = [neighborhood |-> calls.neighborhood + 1,
                       transition |-> calls.transition + (IF r.invoked THEN 1 ELSE 0)]
          /\ args' = IF r.invoked THEN r.args ELSE args
          /\ buffer' = r.buffer
          /\ captured' = r.captured
          /\ x' = IF r.ok THEN x + 1 ELSE x
          /\ pc' = IF r.ok THEN "scan" ELSE "panicked"
    /\ UNCHANGED <<sim_fields, state, y, caller, iter, step_count, init_cells, ctor,
                   pre_state, steps_done, snap, last_ret, nb_iter, fn_call>>

\* the inner loop is over: the outer loop's next pass
NextRow ==
    /\ pc = "scan"
    /\ y < height
    /\ x >= width
    /\ y' = y + 1
    /\ x' = 0
    /\ UNCHANGED <<sim_fields, captured, state, buffer, pc, caller, iter, step_count,
                   init_cells, ctor, pre_state, args, oob, steps_done, snap, last_ret, calls, nb_iter, fn_call>>

\* a slip: the written buffer copied into state, the write target left as it is
swapped_copy_only(a, b) == <<b, b>>

\* mem::swap(&mut a, &mut b): the new <<a, b>>
swapped(a, b) == <<b, a>>

\* both loops are over: swap the buffers and return
Swap ==
    /\ pc = "scan"
    /\ y >= height
    /\ state' = swapped(state, buffer)[1]
    /\ buffer' = swapped(state, buffer)[2]
    /\ steps_done' = steps_done + 1
    /\ pc' = IF caller = "step_until" THEN "until" ELSE "idle"
    /\ last_ret' = IF caller = "step_until" THEN last_ret ELSE "step"
    /\ UNCHANGED <<sim_fields, captured, x, y, caller, iter, step_count, init_cells, ctor,
                   pre_state, args, oob, snap, calls, nb_iter, fn_call>>

(***************************************************************************)
(* step_until(step_count).                                                 *)
(***************************************************************************)
\* a slip: the inclusive range 0..=step_count
until_continues_inclusive(i, n) == i <= n

\* for _ in 0..step_count: is there a pass after i passes?
until_continues(i, n) == i < n

\* the caller calls step_until(n)
CallStepUntil ==
    /\ pc = "idle"
    /\ \E n \in -1..(MaxSteps - steps_done) :
          /\ step_count' = n
          /\ iter' = 0
          /\ pc' = "until"
          /\ snap' = [state |-> state, buffer |-> buffer, captured |-> captured,
                      steps_done |-> steps_done]
          /\ last_ret' = "none"
    /\ UNCHANGED <<sim_fields, captured, state, buffer, x, y, caller, init_cells, ctor,
                   pre_state, args, oob, steps_done, calls, nb_iter, fn_call>>

\* one pass of step_until's loop: self.step()
UntilStep ==
    /\ pc = "until"
    /\ until_continues(iter, step_count)
    /\ iter' = iter + 1
    /\ BeginStep("step_until")
    /\ UNCHANGED <<sim_fields, captured, state, buffer, step_count, init_cells, ctor,
                   steps_done, snap, last_ret, nb_iter, fn_call>>

\* step_until's loop is over: return
UntilReturn ==
    /\ pc = "until"
    /\ ~until_continues(iter, step_count)
    /\ pc' = "idle"
    /\ last_ret' = "step_until"
    /\ UNCHANGED <<sim_fields, captured, state, buffer, x, y, caller, iter, step_count,
                   init_cells, ctor, pre_state, args, oob, steps_done, snap, calls, nb_iter, fn_call>>

Next == CallStep \/ ScanCell \/ NextRow \/ Swap \/ CallStepUntil \/ UntilStep \/ UntilReturn

Spec == Init /\ [][Next]_vars

(***************************************************************************)
(* step() as a function of the simulation: the reference for "n separate   *)
(* step() calls".  s is [ok, state, buffer, captured]; ok is FALSE once a  *)
(* step has panicked.                                                      *)
(***************************************************************************)
RECURSIVE scan_all(_, _, _, _)
\* the two loops from the k-th position on, positions taken in row-major order
scan_all(k, st, buf, cap) ==
    IF k >= width * height
    THEN [ok |-> TRUE, buffer |-> buf, captured |-> cap]
    ELSE LET r == scan_cell(st, buf, cap, k % width, k \div width)
         IN IF r.ok
            THEN scan_all(k + 1, st, r.buffer, r.captured)
            ELSE [ok |-> FALSE, buffer |-> buf, captured |-> cap]

step(s) ==
    LET r == scan_all(0, s.state, s.buffer, s.captured)
    IN IF r.ok
       THEN [ok |-> TRUE, state |-> r.buffer, buffer |-> s.state, captured |-> r.captured]
       ELSE [s EXCEPT !.ok = FALSE]

RECURSIVE step_times(_, _)
\* n calls of step() one after the other
step_times(n, s) == IF n <= 0 \/ ~s.ok THEN s ELSE step_times(n - 1, step(s))

(***************************************************************************)
(* SpecFn: the free functions on inputs drawn from bounded sets.           *)
(***************************************************************************)
sim_vars == <<width, height, transition, captured, neighborhood, state, buffer, pc, x, y,
              caller, iter, step_count, init_cells, ctor, pre_state, args, oob,
              steps_done, snap, last_ret, calls>>

InitFn ==
    /\ Constructed(0, 0, "identity", "von_neuman")
    /\ pc = "fn"
    /\ state = <<>>
    /\ buffer = <<>>
    /\ init_cells = <<>>
    /\ ctor = "none"

\* idx_to_coord then coord_to_idx, as the body of test_roundtrip_idx_coords
RoundtripIdx ==
    /\ pc = "fn"
    /\ UNCHANGED <<sim_vars, nb_iter>>
    /\ \E w \in 1..MaxGrid, idx \in 0..MaxIdx :
        LET coord == idx_to_coord(w, idx)
        IN fn_call' = [op |-> "roundtrip_idx", width |-> w, idx |-> idx, coord |-> coord,
                       new_idx |-> coord_to_idx(w, coord[1], coord[2])]

\* coord_to_idx then idx_to_coord, as the body of test_roundtrip_coords_idx, with
\* x over the whole row 0..width-1
RoundtripCoord ==
    /\ pc = "fn"
    /\ UNCHANGED <<sim_vars, nb_iter>>
    /\ \E w \in 1..MaxGrid, cy \in 0..MaxGrid :
        \E cx \in 0..(w - 1) :
            LET idx == coord_to_idx(w, cx, cy)
            IN fn_call' = [op |-> "roundtrip_coord", width |-> w, x |-> cx, y |-> cy,
                           idx |-> idx, new_coord |-> idx_to_coord(w, idx)]

\* von_neuman(x, y, width, height)
CallVonNeuman ==
    /\ pc = "fn"
    /\ UNCHANGED <<sim_vars, nb_iter>>
    /\ \E w \in 0..MaxGrid, h \in 0..MaxGrid, cx \in -1..MaxGrid, cy \in -1..MaxGrid :
        fn_call' = [op |-> "von_neuman", x |-> cx, y |-> cy, width |-> w, height |-> h,
                    result |-> von_neuman(cx, cy, w, h)]

\* von_neuman for two positions p and q of one grid
CallVonNeumanPair ==
    /\ pc = "fn"
    /\ UNCHANGED <<sim_vars, nb_iter>>
    /\ \E w \in 1..MaxPairGrid, h \in 1..MaxPairGrid :
        \E p \in (0..(w - 1)) \X (0..(h - 1)), q \in (0..(w - 1)) \X (0..(h - 1)) :
            fn_call' = [op |-> "von_neuman_pair", width |-> w, height |-> h, p |-> p, q |-> q,
                        of_p |-> von_neuman(p[1], p[2], w, h),
                        of_q |-> von_neuman(q[1], q[2], w, h)]

NextFn == RoundtripIdx \/ RoundtripCoord \/ CallVonNeuman \/ CallVonNeumanPair

SpecFn == InitFn /\ [][NextFn]_vars

(***************************************************************************)
(* SpecIter: the private Neighborhood iterator.  nb_iter holds the struct's *)
(* fields and, as history, the calls of next() made since init_with_cell    *)
(* (nexts), how many of them returned Some (yielded) and the last result.   *)
(***************************************************************************)
iter_frame == <<width, height, transition, captured, neighborhood, state, buffer, x, y,
                caller, iter, step_count, init_cells, ctor, pre_state, args, oob,
                steps_done, snap, last_ret, calls, fn_call>>

\* the tables an iterator is made for: the built-in one and its prefixes
IterBounds == {SubSeq(VON_NEUMAN_NEIGHBORHOOD, 1, k) : k \in 0..Len(VON_NEUMAN_NEIGHBORHOOD)}

\* Neighborhood::new(bounds, ca_bounds)
Neighborhood_new(bounds, ca_bounds) ==
    [made |-> TRUE, count |-> 0, bounds |-> bounds, ca_bounds |-> ca_bounds,
     cell_coords |-> [some |-> FALSE, v |-> <<0, 0>>],
     nexts |-> 0, yielded |-> 0, last |-> "none yet"]

InitIter ==
    /\ Constructed(0, 0, "identity", "von_neuman")
    /\ pc = "iter"
    /\ state = <<>>
    /\ buffer = <<>>
    /\ init_cells = <<>>
    /\ ctor = "none"

\* the caller makes the iterator
IterNew ==
    /\ pc = "iter"
    /\ ~nb_iter.made
    /\ \E b \in IterBounds, w \in 0..MaxGrid, h \in 0..MaxGrid :
          nb_iter' = Neighborhood_new(b, <<w, h>>)
    /\ UNCHANGED <<iter_frame, pc>>

\* init_with_cell(cell)
IterInitWithCell ==
    /\ pc = "iter"
    /\ nb_iter.made
    /\ \E cell \in (0..MaxGrid) \X (0..MaxGrid) :
          nb_iter' = [nb_iter EXCEPT !.cell_coords = [some |-> TRUE, v |-> cell],
                                     !.nexts = 0, !.yielded = 0, !.last = "none yet"]
    /\ UNCHANGED <<iter_frame, pc>>

\* reset()
IterReset ==
    /\ pc = "iter"
    /\ nb_iter.made
    /\ nb_iter' = [nb_iter EXCEPT !.count = 0]
    /\ UNCHANGED <<iter_frame, pc>>

\* next(): count is compared with bounds.len() and never advanced
IterNext ==
    /\ pc = "iter"
    /\ nb_iter.made
    /\ nb_iter.nexts < MaxNext
    /\ IF nb_iter.count = Len(nb_iter.bounds)
       THEN /\ nb_iter' = [nb_iter EXCEPT !.nexts = @ + 1, !.last = "None"]
            /\ pc' = pc
       ELSE IF ~nb_iter.cell_coords.some
       THEN \* self.cell_coords.unwrap() on None
            /\ pc' = "panicked"
            /\ nb_iter' = nb_iter
       ELSE LET cell == nb_iter.cell_coords.v
                idx == coord_to_idx(nb_iter.ca_bounds[1], cell[1], cell[2])
            IN /\ pc' = pc
               /\ IF idx < 0 \/ idx > nb_iter.ca_bounds[1]
                  THEN nb_iter' = [nb_iter EXCEPT !.nexts = @ + 1, !.last = "None"]
                  ELSE nb_iter' = [nb_iter EXCEPT !.nexts = @ + 1, !.yielded = @ + 1,
                                                  !.last = "Some"]
    /\ UNCHANGED iter_frame

NextIter == IterNew \/ IterInitWithCell \/ IterReset \/ IterNext

SpecIter == InitIter /\ [][NextIter]_vars

(***************************************************************************)
(* Properties.                                                             *)
(***************************************************************************)
\* a step() has returned and none has begun since: state is what it left, and
\* pre_state, args and oob are those of that step
StepCompleted == steps_done > 0 /\ pc \in {"idle", "until"}

\* the place of grid position c in a row-major vector (1-based)
Place(c) == c[2] * width + c[1] + 1

Positions == (0..(width - 1)) \X (0..(height - 1))

\* C1: snapshot consistency.  Every neighbour value handed to the transition
\* rule is the value its position held in cells() when the step began, whatever
\* was processed earlier in the step; and with the rule that copies its first
\* neighbour, after a step every cell that has a neighbour holds the pre-step
\* value of that neighbour.
C1_SnapshotConsistency ==
    /\ args.called =>
          \A k \in 1..Len(args.neighbors) : args.neighbors[k] = pre_state[Place(args.coords[k])]
    /\ (StepCompleted /\ transition = "copy_first") =>
          \A p \in Positions :
              LET coords == apply_neighborhood(neighborhood, p[1], p[2], width, height)
              IN Len(coords) > 0 => state[Place(p)] = pre_state[Place(coords[1])]

\* C1 witness: a second step with the copying rule has completed on a grid of
\* distinct cells, after the write buffer was changed by the first step, and a
\* cell was handed a neighbour whose slot had already been rewritten in that step
C1_Witness ==
    /\ StepCompleted
    /\ steps_done >= 2
    /\ transition = "copy_first"
    /\ neighborhood = "von_neuman"
    /\ ctor = "from_cells"
    /\ width >= 2
    /\ Len(state) = width * height
    /\ state # pre_state
    /\ args.called
    /\ \E k \in 1..Len(args.coords) :
          /\ Place(args.coords[k]) < Place(args.pos)
          /\ buffer # state

\* C2: in every step, the cell the transition rule receives as its mutable
\* argument is the current value of that position, the one cells() held at
\* index y*width+x when the step began.
C2_CellArgIsCurrent ==
    args.called => args.cell = pre_state[Place(args.pos)]

\* C3: index round trip.  idx_to_coord followed by coord_to_idx gives the
\* index back, for every width >= 1 and index >= 0.
C3_IndexRoundTrip ==
    fn_call.op = "roundtrip_idx" => fn_call.new_idx = fn_call.idx

\* C3 witness: an index beyond the first row, off the first column
C3_Witness ==
    /\ fn_call.op = "roundtrip_idx"
    /\ fn_call.width >= 2
    /\ fn_call.idx > fn_call.width
    /\ fn_call.coord[1] > 0
    /\ fn_call.coord[2] > 0
    /\ fn_call.coord[1] # fn_call.coord[2]

\* C4: coordinate round trip.  coord_to_idx followed by idx_to_coord gives
\* (x, y) back for every width >= 1, 0 <= x < width (the last column too) and
\* y >= 0; so coord_to_idx is one-to-one on [0,width) x [0,height) and maps it
\* onto [0, width*height) (height taken as y + 1).
C4_CoordRoundTrip ==
    fn_call.op = "roundtrip_coord" =>
        /\ fn_call.new_coord = <<fn_call.x, fn_call.y>>
        /\ LET w == fn_call.width
               h == fn_call.y + 1
               G == (0..(w - 1)) \X (0..(h - 1))
           IN /\ {coord_to_idx(w, c[1], c[2]) : c \in G} = 0..(w * h - 1)
              /\ \A c \in G, d \in G :
                    coord_to_idx(w, c[1], c[2]) = coord_to_idx(w, d[1], d[2]) => c = d

\* C4 witness: the last column of a row that is not the first
C4_Witness ==
    /\ fn_call.op = "roundtrip_coord"
    /\ fn_call.width >= 3
    /\ fn_call.x = fn_call.width - 1
    /\ fn_call.y >= 2
    /\ fn_call.x # fn_call.y

\* every coordinate the neighbourhood rule returns for a grid position is in the grid
InBoundsRule ==
    \A p \in Positions :
        LET coords == apply_neighborhood(neighborhood, p[1], p[2], width, height)
        IN \A k \in 1..Len(coords) : in_grid(coords[k], width, height)

\* C5: a no-op rule preserves the grid.  Built by from_cells from width*height
\* cells, with a transition rule that leaves its cell alone and a neighbourhood
\* rule that stays in the grid, cells() is the initial sequence after any
\* number of steps.
C5_NoOpPreservesGrid ==
    (/\ ctor = "from_cells"
     /\ Len(init_cells) = width * height
     /\ transition \in NoOpRules
     /\ InBoundsRule
     /\ pc \in {"idle", "until"})
    => state = init_cells

\* C5 witness: two steps done on a grid of several cells, each rule call counted
C5_Witness ==
    /\ ctor = "from_cells"
    /\ Len(init_cells) = width * height
    /\ width >= 2
    /\ height >= 2
    /\ transition = "count_calls"
    /\ captured >= 2 * width * height
    /\ neighborhood = "von_neuman"
    /\ pc = "idle"
    /\ steps_done >= 2

\* C6: buffer length invariant.  After construction and after every step both
\* buffers have length exactly width*height.
C6_BufferLengths ==
    pc \in {"idle", "until"} =>
        /\ Len(state) = width * height
        /\ Len(buffer) = width * height

\* C7: out-of-grid neighbour coordinates fail loudly.  A step in which the
\* neighbourhood rule returned a coordinate outside the grid faults: it does not
\* complete.  (Stated for buffers of the right length, so that a hit depends
\* on the index arithmetic alone.)
C7_OutOfGridFaults ==
    (Len(state) = width * height /\ Len(buffer) = width * height) =>
        ~(StepCompleted /\ oob)

\* C8: step_until(n) is n calls of step().  When step_until returns, both
\* buffers and the rule's captured state are those n calls of step() give, with
\* max(n, 0) steps performed; for n <= 0 nothing has changed.
C8_StepUntilIsNSteps ==
    last_ret = "step_until" =>
        LET r == step_times(step_count,
                            [ok |-> TRUE, state |-> snap.state, buffer |-> snap.buffer,
                             captured |-> snap.captured])
        IN /\ r.ok
           /\ state = r.state
           /\ buffer = r.buffer
           /\ captured = r.captured
           /\ steps_done - snap.steps_done = (IF step_count > 0 THEN step_count ELSE 0)
           /\ step_count <= 0 =>
                 /\ state = snap.state
                 /\ buffer = snap.buffer
                 /\ captured = snap.captured

\* C8 witness: step_until(n) with n >= 2 has returned, having changed the cells
\* and the rule's captured state
C8_Witness ==
    /\ last_ret = "step_until"
    /\ step_count >= 2
    /\ Len(state) >= 2
    /\ state # snap.state
    /\ state # buffer

\* C9: von_neuman returns exactly those of (x-1,y), (x,y-1), (x+1,y), (x,y+1),
\* in that order, that lie in [0,width) x [0,height), and nothing else; on a
\* 1x1 grid it returns the empty list.
C9_VonNeumanExact ==
    fn_call.op = "von_neuman" =>
        LET r == fn_call.result
            cx == fn_call.x
            cy == fn_call.y
            cand == << <<cx - 1, cy>>, <<cx, cy - 1>>, <<cx + 1, cy>>, <<cx, cy + 1>> >>
            inside(c) == 0 <= c[1] /\ c[1] < fn_call.width /\ 0 <= c[2] /\ c[2] < fn_call.height
            at(m) == CHOOSE k \in 1..4 : cand[k] = r[m]
        IN /\ \A k \in 1..4 : inside(cand[k]) <=> (\E m \in 1..Len(r) : r[m] = cand[k])
           /\ \A m \in 1..Len(r) : \E k \in 1..4 : r[m] = cand[k]
           /\ \A m \in 1..Len(r), n \in 1..Len(r) : m < n => at(m) < at(n)
           /\ \A m \in 1..Len(r) : r[m] # <<cx, cy>> /\ (r[m][1] = cx \/ r[m][2] = cy)
           /\ (fn_call.width = 1 /\ fn_call.height = 1 /\ cx = 0 /\ cy = 0) => r = <<>>

\* C9 witness: a position on the last column and last row, where two of the
\* four candidates are filtered out
C9_Witness ==
    /\ fn_call.op = "von_neuman"
    /\ fn_call.width >= 2
    /\ fn_call.height >= 2
    /\ fn_call.x = fn_call.width - 1
    /\ fn_call.y = fn_call.height - 1
    /\ fn_call.result = << <<fn_call.x - 1, fn_call.y>>, <<fn_call.x, fn_call.y - 1>> >>

\* C10: neighbour count by position class.  On a grid with width, height >= 2
\* von_neuman returns 4 coordinates for an interior position, 3 for an edge
\* position that is no corner, 2 for a corner.
C10_NeighbourCount ==
    (/\ fn_call.op = "von_neuman"
     /\ fn_call.width >= 2
     /\ fn_call.height >= 2
     /\ 0 <= fn_call.x /\ fn_call.x < fn_call.width
     /\ 0 <= fn_call.y /\ fn_call.y < fn_call.height)
    => LET onX == fn_call.x = 0 \/ fn_call.x = fn_call.width - 1
           onY == fn_call.y = 0 \/ fn_call.y = fn_call.height - 1
       IN Len(fn_call.result) = (IF onX /\ onY THEN 2 ELSE IF onX \/ onY THEN 3 ELSE 4)

\* C10 witness: an interior position, with its four neighbours
C10_Witness ==
    /\ fn_call.op = "von_neuman"
    /\ fn_call.width >= 3
    /\ fn_call.height >= 3
    /\ 0 < fn_call.x /\ fn_call.x < fn_call.width - 1
    /\ 0 < fn_call.y /\ fn_call.y < fn_call.height - 1
    /\ Len(fn_call.result) = 4

\* the coordinates a list holds
Elems(list) == {list[k] : k \in 1..Len(list)}

\* C11: neighbour symmetry.  For two positions p and q of one grid, q is among
\* von_neuman's neighbours of p exactly when p is among those of q.
C11_NeighbourSymmetry ==
    fn_call.op = "von_neuman_pair" =>
        (fn_call.q \in Elems(fn_call.of_p) <=> fn_call.p \in Elems(fn_call.of_q))

\* C11 witness: q = (0, 1) on the grid's left edge is a neighbour of p = (1, 1),
\* and p one of q
C11_Witness ==
    /\ fn_call.op = "von_neuman_pair"
    /\ fn_call.width >= 2
    /\ fn_call.height >= 2
    /\ fn_call.p = <<1, 1>>
    /\ fn_call.q = <<0, 1>>
    /\ fn_call.q \in Elems(fn_call.of_p)
    /\ fn_call.p \in Elems(fn_call.of_q)

\* C12: no duplicate neighbours.  For every grid size (width or height 1 too)
\* and every position in the grid, von_neuman's list holds no coordinate twice,
\* and no two of its coordinates have the same index y*width+x: the list step
\* gathers from it never refers to one grid position twice.
C12_NoDuplicateNeighbours ==
    (/\ fn_call.op = "von_neuman"
     /\ 0 <= fn_call.x /\ fn_call.x < fn_call.width
     /\ 0 <= fn_call.y /\ fn_call.y < fn_call.height)
    => \A m \in 1..Len(fn_call.result), n \in 1..Len(fn_call.result) :
          m # n =>
             /\ fn_call.result[m] # fn_call.result[n]
             /\ fn_call.result[m][2] * fn_call.width + fn_call.result[m][1]
                   # fn_call.result[n][2] * fn_call.width + fn_call.result[n][1]

\* C12 witness: an inner position of a grid one cell wide, with its two neighbours
C12_Witness ==
    /\ fn_call.op = "von_neuman"
    /\ fn_call.width = 1
    /\ fn_call.height >= 3
    /\ fn_call.x = 0
    /\ fn_call.y = 1
    /\ Len(fn_call.result) = 2

\* C13: one invocation per position, in row-major order.  In every step the
\* k-th transition invocation (k from 0) is for position (k mod width,
\* k div width); the neighbourhood rule has been invoked as often as the
\* transition rule, once more only when the gather that followed it faulted; a
\* step that has returned made exactly width*height invocations of each, and
\* none is made after the swap.
C13_OncePerPositionRowMajor ==
    /\ args.called <=> calls.transition > 0
    /\ args.called =>
          args.pos = <<(calls.transition - 1) % width, (calls.transition - 1) \div width>>
    /\ calls.neighborhood \in {calls.transition, calls.transition + 1}
    /\ pc # "panicked" => calls.neighborhood = calls.transition
    /\ StepCompleted =>
          /\ calls.transition = width * height
          /\ calls.neighborhood = width * height

\* C13 witness: a step on a 2x2 grid has returned after its fourth invocation,
\* the one for position (1, 1)
C13_Witness ==
    /\ StepCompleted
    /\ width = 2
    /\ height = 2
    /\ calls = [neighborhood |-> 4, transition |-> 4]
    /\ args.pos = <<1, 1>>
    /\ pc = "idle"

Dist(a, b) ==
    (IF a[1] >= b[1] THEN a[1] - b[1] ELSE b[1] - a[1])
    + (IF a[2] >= b[2] THEN a[2] - b[2] ELSE b[2] - a[2])

\* the first step of a grid built by from_cells from width*height located
\* cells, with the built-in neighbourhood
FirstStepOfLocatedGrid ==
    /\ ctor = "from_cells"
    /\ Len(init_cells) = width * height
    /\ neighborhood = "von_neuman"
    /\ steps_done = 0
    /\ pc \in {"scan", "panicked"}

\* C14: neighbour gather.  The list handed to the transition rule for (x, y)
\* has the length and order of the coordinates the neighbourhood rule returned
\* for (x, y, width, height), its k-th element being the current-state cell at
\* index j_k*width + i_k.  So in the first step of a grid of located cells
\* with von_neuman every handed neighbour is at Manhattan distance 1 from the
\* cell, and the checking rule of examples/indexing does not panic.
C14_NeighbourGather ==
    /\ (args.called /\ pc \in {"scan", "panicked"}) =>
          /\ args.coords = apply_neighborhood(neighborhood, args.pos[1], args.pos[2], width, height)
          /\ Len(args.neighbors) = Len(args.coords)
          /\ \A k \in 1..Len(args.coords) :
                args.neighbors[k] = state[args.coords[k][2] * width + args.coords[k][1] + 1]
    /\ (args.called /\ FirstStepOfLocatedGrid) =>
          \A k \in 1..Len(args.neighbors) :
              Dist(cell_location(width, args.neighbors[k]), cell_location(width, args.cell)) = 1
    /\ FirstStepOfLocatedGrid => pc # "panicked"

\* C14 witness: in the first step of a 2x2 grid of located cells the checking
\* rule has been handed the two neighbours of the last position, (0,1) and (1,0)
C14_Witness ==
    /\ FirstStepOfLocatedGrid
    /\ transition = "check_adjacent"
    /\ width = 2
    /\ height = 2
    /\ args.called
    /\ args.pos = <<1, 1>>
    /\ args.coords = << <<0, 1>>, <<1, 0>> >>
    /\ args.neighbors = <<3, 2>>

\* C15: buffer role swap.  When step() returns, cells() is the buffer that was
\* written during the step, slot by slot as the transition rule left it, and
\* the other buffer, the next step's write target, is what cells() was before
\* the step.
C15_BufferRoleSwap ==
    [][(pc = "scan" /\ pc' \in {"idle", "until"}) =>
          /\ state' = buffer
          /\ buffer' = state
          /\ buffer' = pre_state]_vars

\* C15 witness: a second step has returned with the two buffers different, the
\* write target holding the cells of before the step
C15_Witness ==
    /\ StepCompleted
    /\ steps_done >= 2
    /\ Len(state) >= 2
    /\ state # buffer
    /\ buffer = pre_state
    /\ transition = "increment"

\* C16: step atomicity.  While a step scans, and when it has aborted, cells()
\* is what it was when the step began; a pass of the loop body changes at most
\* slot y*width+x of the other buffer; cells() changes only at the swap.
C16_StepAtomicity ==
    [][/\ pc' \in {"scan", "panicked"} => state' = pre_state'
       /\ (pc = "scan" /\ pc' \in {"scan", "panicked"}) =>
             /\ state' = state
             /\ Len(buffer') = Len(buffer)
             /\ \A k \in 1..Len(buffer) : k # y * width + x + 1 => buffer'[k] = buffer[k]
       /\ state' # state => (pc = "scan" /\ pc' \in {"idle", "until"})]_vars

\* C16 witness: a step has aborted after rewriting a slot of the write buffer,
\* and cells() is still what it was when the step began
C16_Witness ==
    /\ pc = "panicked"
    /\ calls.transition >= 1
    /\ buffer # state
    /\ state = pre_state
    /\ Len(state) = width * height

\* C17: empty grids are legal.  With width = 0 or height = 0, construction and
\* any number of steps fault nowhere, invoke neither closure and leave cells()
\* empty.
C17_EmptyGrid ==
    (width = 0 \/ height = 0) =>
        /\ pc # "panicked"
        /\ calls = NoCalls
        /\ ~args.called
        /\ state = <<>>

\* C17 for the grids built by new or by from_cells from width*height (= 0) cells
C17_EmptyGridOfMatchingCells ==
    (/\ width = 0 \/ height = 0
     /\ ctor = "from_cells" => Len(init_cells) = width * height)
    => /\ pc # "panicked"
       /\ calls = NoCalls
       /\ ~args.called
       /\ state = <<>>

\* C18: iterating the Neighborhood iterator terminates.  After init_with_cell,
\* next() yields at most bounds.len() items, and then None.  (Stated for the
\* built-in table and a cell of the grid.)
C18_IteratorYieldsAtMostLen ==
    (/\ nb_iter.made
     /\ nb_iter.cell_coords.some
     /\ nb_iter.bounds = VON_NEUMAN_NEIGHBORHOOD
     /\ in_grid(nb_iter.cell_coords.v, nb_iter.ca_bounds[1], nb_iter.ca_bounds[2])) =>
        /\ nb_iter.yielded <= Len(nb_iter.bounds)
        /\ nb_iter.nexts > Len(nb_iter.bounds) => nb_iter.last = "None"

====
